---- MODULE Spec2Model ----
(***************************************************************************)
(* Model of the reservoir limiter of src/reservoir_limiter.go.             *)
(*                                                                         *)
(* Processes: the callers of Limit, the manageTokens goroutines started by *)
(* Limit, and the refillTokens goroutines started by manageTokens.  The    *)
(* channels l.in and l.out are unbuffered: a transfer is one joint step of *)
(* a sender and a receiver that are both parked on the channel.            *)
(***************************************************************************)
EXTENDS Integers, Sequences, FiniteSets, TLC

\* Number of calls of Limit, numbered in the order in which they pass the
\* l.mutex.Lock() of line 33.
NumCallers == 2

\* Largest capacity passed to NewReservoirLimiter.
MaxCap == 2

Callers == 1..NumCallers

VARIABLES
    maxTokens,      \* l.maxTokens
    numConcurrent,  \* l.numConcurrent
    mutex,          \* l.mutex: <<>> when free, else its holder
    pc,             \* position of each Limit call
    ctxDone,        \* whether ctx.Done() of each call is closed
    result,         \* return value of each Limit call
    got,            \* tokens each Limit call received from l.out
    mgrs,           \* the manageTokens goroutines ever started
    scheds,         \* the refillTokens goroutines ever started
    dispensed,      \* number of executions of tokenCount--
    refilled,       \* number of executions of tokenCount++
    fullDispensed   \* number of tokenCount-- executed at tokenCount = maxTokens

vars == <<maxTokens, numConcurrent, mutex, pc, ctxDone, result, got,
          mgrs, scheds, dispensed, refilled, fullDispensed>>

Free == <<>>
CallerId(c) == <<"limit", c>>
MgrId(i) == <<"manage", i>>
\* Variant: the manager starts with an empty reservoir.
NewManagerEmpty(cap) == [pc |-> "loop", tokenCount |-> 0]

\* A manageTokens goroutine right after `go l.manageTokens()`: line 57.
NewManager(cap) == [pc |-> "loop", tokenCount |-> cap]

\* A refillTokens goroutine right after `go l.refillTokens()`.
NewScheduler == [alive |-> TRUE, delivered |-> 0]

Running == {i \in DOMAIN mgrs : mgrs[i].pc # "done"}

\* Variant: the manager also receives from l.in while it sends in the full
\* state.
ReceivingInWhenFull == {i \in DOMAIN mgrs : mgrs[i].pc \in {"recvIn", "select", "sendOut"}}

\* manageTokens goroutines parked on a receive from l.in.
ReceivingIn == {i \in DOMAIN mgrs : mgrs[i].pc \in {"recvIn", "select"}}

\* manageTokens goroutines parked on a send to l.out.
SendingOut == {i \in DOMAIN mgrs : mgrs[i].pc \in {"sendOut", "select"}}

Init ==
    /\ maxTokens \in 1..MaxCap
    /\ numConcurrent = 0
    /\ mutex = Free
    /\ pc = [c \in Callers |-> "idle"]
    /\ ctxDone = [c \in Callers |-> FALSE]
    /\ result = [c \in Callers |-> "none"]
    /\ got = [c \in Callers |-> 0]
    /\ mgrs = <<>>
    /\ scheds = <<>>
    /\ dispensed = 0
    /\ refilled = 0
    /\ fullDispensed = 0

----
\* The caller's context is cancelled (external event).  ctx is read by the
\* select of line 41 only, so a cancellation that comes earlier (even before
\* the call) is this step taken as soon as the call reaches its select.
Cancel(c) ==
    /\ pc[c] = "select"
    /\ ~ctxDone[c]
    /\ ctxDone' = [ctxDone EXCEPT ![c] = TRUE]
    /\ UNCHANGED <<maxTokens, numConcurrent, mutex, pc, result, got,
                   mgrs, scheds, dispensed, refilled, fullDispensed>>

\* A goroutine calls Limit and passes l.mutex.Lock() of line 33.
LimitCall(c) ==
    /\ pc[c] = "idle"
    /\ \A d \in Callers : d < c => pc[d] # "idle"
    /\ mutex = Free
    /\ mutex' = CallerId(c)
    /\ pc' = [pc EXCEPT ![c] = "entryCS"]
    /\ UNCHANGED <<maxTokens, numConcurrent, ctxDone, result, got,
                   mgrs, scheds, dispensed, refilled, fullDispensed>>

\* l.mutex.Lock() at line 43 or 48.
LimitLock(c) ==
    /\ pc[c] \in {"recvLock", "doneLock"}
    /\ mutex = Free
    /\ mutex' = CallerId(c)
    /\ pc' = [pc EXCEPT ![c] = IF pc[c] = "recvLock" THEN "recvCS" ELSE "doneCS"]
    /\ UNCHANGED <<maxTokens, numConcurrent, ctxDone, result, got,
                   mgrs, scheds, dispensed, refilled, fullDispensed>>
\* Variant: a manager is also started when only the manager is counted.
LimitEnterAtOne(c) ==
    /\ pc[c] = "entryCS"
    /\ mutex = CallerId(c)
    /\ IF numConcurrent <= 1
         THEN /\ numConcurrent' = 2
              /\ mgrs' = Append(mgrs, NewManager(maxTokens))
         ELSE /\ numConcurrent' = numConcurrent + 1
              /\ UNCHANGED mgrs
    /\ mutex' = Free
    /\ pc' = [pc EXCEPT ![c] = "select"]
    /\ UNCHANGED <<maxTokens, ctxDone, result, got, scheds, dispensed, refilled, fullDispensed>>

\* Lines 34-40: the entry bookkeeping, then Unlock.
LimitEnter(c) ==
    /\ pc[c] = "entryCS"
    /\ mutex = CallerId(c)
    /\ IF numConcurrent = 0
         THEN /\ numConcurrent' = 2
              /\ mgrs' = Append(mgrs, NewManager(maxTokens))
         ELSE /\ numConcurrent' = numConcurrent + 1
              /\ UNCHANGED mgrs
    /\ mutex' = Free
    /\ pc' = [pc EXCEPT ![c] = "select"]
    /\ UNCHANGED <<maxTokens, ctxDone, result, got, scheds, dispensed, refilled, fullDispensed>>
\* Variant: the select takes the ctx.Done() case without ctx being done.
LimitCtxDoneSpurious(c) ==
    /\ pc[c] = "select"
    /\ pc' = [pc EXCEPT ![c] = "doneLock"]
    /\ UNCHANGED <<maxTokens, numConcurrent, mutex, ctxDone, result, got,
                   mgrs, scheds, dispensed, refilled, fullDispensed>>

\* Line 47: the select takes the ctx.Done() case.
LimitCtxDone(c) ==
    /\ pc[c] = "select"
    /\ ctxDone[c]
    /\ pc' = [pc EXCEPT ![c] = "doneLock"]
    /\ UNCHANGED <<maxTokens, numConcurrent, mutex, ctxDone, result, got,
                   mgrs, scheds, dispensed, refilled, fullDispensed>>

\* Lines 44-46: decrement, Unlock, return nil.
LimitReturnNil(c) ==
    /\ pc[c] = "recvCS"
    /\ mutex = CallerId(c)
    /\ numConcurrent' = numConcurrent - 1
    /\ mutex' = Free
    /\ result' = [result EXCEPT ![c] = "nil"]
    /\ pc' = [pc EXCEPT ![c] = "done"]
    /\ UNCHANGED <<maxTokens, ctxDone, got, mgrs, scheds, dispensed, refilled, fullDispensed>>

\* Variant: the ctx.Done() case returns without the decrement.
LimitReturnErrNoDecrement(c) ==
    /\ pc[c] = "doneCS"
    /\ mutex = CallerId(c)
    /\ mutex' = Free
    /\ result' = [result EXCEPT ![c] = "err"]
    /\ pc' = [pc EXCEPT ![c] = "done"]
    /\ UNCHANGED <<maxTokens, numConcurrent, ctxDone, got, mgrs, scheds, dispensed,
                   refilled, fullDispensed>>

\* Lines 49-51: decrement, Unlock, return ctx.Err().
LimitReturnErr(c) ==
    /\ pc[c] = "doneCS"
    /\ mutex = CallerId(c)
    /\ numConcurrent' = numConcurrent - 1
    /\ mutex' = Free
    /\ result' = [result EXCEPT ![c] = "err"]
    /\ pc' = [pc EXCEPT ![c] = "done"]
    /\ UNCHANGED <<maxTokens, ctxDone, got, mgrs, scheds, dispensed, refilled, fullDispensed>>

----
\* Variant: every non-empty level is handled by the case of the full
\* reservoir.
MgrSwitchFullByDefault(i) ==
    /\ mgrs[i].pc = "loop"
    /\ mgrs' = [mgrs EXCEPT ![i].pc =
                   IF mgrs[i].tokenCount = 0 THEN "recvIn" ELSE "lock"]
    /\ UNCHANGED <<maxTokens, numConcurrent, mutex, pc, ctxDone, result, got,
                   scheds, dispensed, refilled, fullDispensed>>

\* Line 59: the switch on tokenCount (case 0 is tested first).
MgrSwitch(i) ==
    /\ mgrs[i].pc = "loop"
    /\ mgrs' = [mgrs EXCEPT ![i].pc =
                   IF mgrs[i].tokenCount = 0 THEN "recvIn"
                   ELSE IF mgrs[i].tokenCount = maxTokens THEN "lock"
                   ELSE "select"]
    /\ UNCHANGED <<maxTokens, numConcurrent, mutex, pc, ctxDone, result, got,
                   scheds, dispensed, refilled, fullDispensed>>

\* Line 64: l.mutex.Lock().
MgrLock(i) ==
    /\ mgrs[i].pc = "lock"
    /\ mutex = Free
    /\ mutex' = MgrId(i)
    /\ mgrs' = [mgrs EXCEPT ![i].pc = "check"]
    /\ UNCHANGED <<maxTokens, numConcurrent, pc, ctxDone, result, got,
                   scheds, dispensed, refilled, fullDispensed>>
\* Variant: the manager terminates without resetting numConcurrent.
MgrCheckNoReset(i) ==
    /\ mgrs[i].pc = "check"
    /\ mutex = MgrId(i)
    /\ IF numConcurrent = 1
         THEN mgrs' = [mgrs EXCEPT ![i].pc = "done"]
         ELSE mgrs' = [mgrs EXCEPT ![i].pc = "sendOut"]
    /\ mutex' = Free
    /\ UNCHANGED <<maxTokens, numConcurrent, pc, ctxDone, result, got, scheds,
                   dispensed, refilled, fullDispensed>>

\* Variant: the manager terminates whenever at most one call is counted
\* besides itself.
MgrCheckQuitEarly(i) ==
    /\ mgrs[i].pc = "check"
    /\ mutex = MgrId(i)
    /\ IF numConcurrent <= 2
         THEN /\ numConcurrent' = numConcurrent - 1
              /\ mgrs' = [mgrs EXCEPT ![i].pc = "done"]
         ELSE /\ UNCHANGED numConcurrent
              /\ mgrs' = [mgrs EXCEPT ![i].pc = "sendOut"]
    /\ mutex' = Free
    /\ UNCHANGED <<maxTokens, pc, ctxDone, result, got, scheds, dispensed, refilled,
                   fullDispensed>>

\* Variant: the manager keeps the mutex while it sends on l.out.
MgrCheckKeepLock(i) ==
    /\ mgrs[i].pc = "check"
    /\ mutex = MgrId(i)
    /\ IF numConcurrent = 1
         THEN /\ numConcurrent' = 0
              /\ mgrs' = [mgrs EXCEPT ![i].pc = "done"]
              /\ mutex' = Free
         ELSE /\ UNCHANGED <<numConcurrent, mutex>>
              /\ mgrs' = [mgrs EXCEPT ![i].pc = "sendOut"]
    /\ UNCHANGED <<maxTokens, pc, ctxDone, result, got, scheds, dispensed, refilled, fullDispensed>>

\* Lines 65-71: terminate when only the manager is counted, else go on to
\* the send of line 72.
MgrCheck(i) ==
    /\ mgrs[i].pc = "check"
    /\ mutex = MgrId(i)
    /\ IF numConcurrent = 1
         THEN /\ numConcurrent' = 0
              /\ mgrs' = [mgrs EXCEPT ![i].pc = "done"]
         ELSE /\ UNCHANGED numConcurrent
              /\ mgrs' = [mgrs EXCEPT ![i].pc = "sendOut"]
    /\ mutex' = Free
    /\ UNCHANGED <<maxTokens, pc, ctxDone, result, got, scheds, dispensed, refilled, fullDispensed>>
\* Variant: the send forgets tokenCount--.
DispenseNoDecrement(i, c) ==
    /\ i \in SendingOut
    /\ pc[c] = "select"
    /\ mgrs' = [mgrs EXCEPT ![i].pc = IF mgrs[i].pc = "sendOut" THEN "spawn" ELSE "loop"]
    /\ dispensed' = dispensed + 1
    /\ fullDispensed' = IF mgrs[i].tokenCount = maxTokens THEN fullDispensed + 1
                        ELSE fullDispensed
    /\ got' = [got EXCEPT ![c] = @ + 1]
    /\ pc' = [pc EXCEPT ![c] = "recvLock"]
    /\ UNCHANGED <<maxTokens, numConcurrent, mutex, ctxDone, result, scheds, refilled>>

\* Variant: a token handed to a call whose ctx is done is dropped by that
\* call, which then takes the ctx.Done() case.
DispenseToCancelled(i, c) ==
    /\ i \in SendingOut
    /\ pc[c] = "select"
    /\ mgrs' = [mgrs EXCEPT ![i].tokenCount = @ - 1,
                            ![i].pc = IF mgrs[i].pc = "sendOut" THEN "spawn" ELSE "loop"]
    /\ dispensed' = dispensed + 1
    /\ fullDispensed' = IF mgrs[i].tokenCount = maxTokens THEN fullDispensed + 1
                        ELSE fullDispensed
    /\ got' = [got EXCEPT ![c] = @ + 1]
    /\ pc' = [pc EXCEPT ![c] = IF ctxDone[c] THEN "doneLock" ELSE "recvLock"]
    /\ UNCHANGED <<maxTokens, numConcurrent, mutex, ctxDone, result, scheds, refilled>>

\* Variant: a scheduler is started after every send, also in the partial
\* state.
DispenseAlwaysSpawn(i, c) ==
    /\ i \in SendingOut
    /\ pc[c] = "select"
    /\ mgrs' = [mgrs EXCEPT ![i].tokenCount = @ - 1, ![i].pc = "spawn"]
    /\ dispensed' = dispensed + 1
    /\ fullDispensed' = IF mgrs[i].tokenCount = maxTokens THEN fullDispensed + 1
                        ELSE fullDispensed
    /\ got' = [got EXCEPT ![c] = @ + 1]
    /\ pc' = [pc EXCEPT ![c] = "recvLock"]
    /\ UNCHANGED <<maxTokens, numConcurrent, mutex, ctxDone, result, scheds, refilled>>

\* A transfer on l.out: the send of line 72 or 79 meets the receive of
\* line 42; then tokenCount-- (line 73 or 80).
Dispense(i, c) ==
    /\ i \in SendingOut
    /\ pc[c] = "select"
    /\ mgrs' = [mgrs EXCEPT ![i].tokenCount = @ - 1,
                            ![i].pc = IF mgrs[i].pc = "sendOut" THEN "spawn" ELSE "loop"]
    /\ dispensed' = dispensed + 1
    /\ fullDispensed' = IF mgrs[i].tokenCount = maxTokens THEN fullDispensed + 1
                        ELSE fullDispensed
    /\ got' = [got EXCEPT ![c] = @ + 1]
    /\ pc' = [pc EXCEPT ![c] = "recvLock"]
    /\ UNCHANGED <<maxTokens, numConcurrent, mutex, ctxDone, result, scheds, refilled>>

\* Line 74: go l.refillTokens().
MgrSpawn(i) ==
    /\ mgrs[i].pc = "spawn"
    /\ scheds' = Append(scheds, NewScheduler)
    /\ mgrs' = [mgrs EXCEPT ![i].pc = "loop"]
    /\ UNCHANGED <<maxTokens, numConcurrent, mutex, pc, ctxDone, result, got,
                   dispensed, refilled, fullDispensed>>

----
\* Variant: the scheduler stops after its first successful delivery.
RefillDeliverOnce(s, i) ==
    /\ scheds[s].alive
    /\ i \in ReceivingIn
    /\ scheds' = [scheds EXCEPT ![s].delivered = @ + 1, ![s].alive = FALSE]
    /\ mgrs' = [mgrs EXCEPT ![i].tokenCount = @ + 1, ![i].pc = "loop"]
    /\ refilled' = refilled + 1
    /\ UNCHANGED <<maxTokens, numConcurrent, mutex, pc, ctxDone, result, got, dispensed,
                   fullDispensed>>

\* Lines 89-92 with 61-62 or 77-78: on a tick the non-blocking send on l.in
\* meets a parked receive; then tokenCount++.
RefillDeliver(s, i) ==
    /\ scheds[s].alive
    /\ i \in ReceivingIn
    /\ scheds' = [scheds EXCEPT ![s].delivered = @ + 1]
    /\ mgrs' = [mgrs EXCEPT ![i].tokenCount = @ + 1, ![i].pc = "loop"]
    /\ refilled' = refilled + 1
    /\ UNCHANGED <<maxTokens, numConcurrent, mutex, pc, ctxDone, result, got, dispensed,
                   fullDispensed>>

\* Lines 93-96: on a tick no receiver is parked on l.in; stop and return.
RefillStop(s) ==
    /\ scheds[s].alive
    /\ ReceivingIn = {}
    /\ scheds' = [scheds EXCEPT ![s].alive = FALSE]
    /\ UNCHANGED <<maxTokens, numConcurrent, mutex, pc, ctxDone, result, got,
                   mgrs, dispensed, refilled, fullDispensed>>

----
Next ==
    \/ \E c \in Callers : Cancel(c)
    \/ \E c \in Callers : LimitCall(c)
    \/ \E c \in Callers : LimitLock(c)
    \/ \E c \in Callers : LimitEnter(c)
    \/ \E c \in Callers : LimitCtxDone(c)
    \/ \E c \in Callers : LimitReturnNil(c)
    \/ \E c \in Callers : LimitReturnErr(c)
    \/ \E i \in DOMAIN mgrs : MgrSwitch(i)
    \/ \E i \in DOMAIN mgrs : MgrLock(i)
    \/ \E i \in DOMAIN mgrs : MgrCheck(i)
    \/ \E i \in DOMAIN mgrs : \E c \in Callers : Dispense(i, c)
    \/ \E i \in DOMAIN mgrs : MgrSpawn(i)
    \/ \E s \in DOMAIN scheds : \E i \in DOMAIN mgrs : RefillDeliver(s, i)
    \/ \E s \in DOMAIN scheds : RefillStop(s)

Spec == Init /\ [][Next]_vars

----
\* Scheduling.  A call that has passed the entry Lock keeps running: every
\* mutex holder unlocks, sync.Mutex hands the lock over, and a select with a
\* ready case proceeds.
CallerStep(c) ==
    LimitLock(c) \/ LimitEnter(c) \/ LimitCtxDone(c) \/ LimitReturnNil(c) \/ LimitReturnErr(c)

\* The local steps of a manageTokens goroutine.
MgrStep(i) ==
    i \in DOMAIN mgrs /\ (MgrSwitch(i) \/ MgrLock(i) \/ MgrCheck(i) \/ MgrSpawn(i))

\* A parked send on l.out and a parked receive complete.
Receive(c) == \E i \in DOMAIN mgrs : Dispense(i, c)

\* The ticker of a live refillTokens goroutine fires.
Tick(s) ==
    s \in DOMAIN scheds /\ (RefillStop(s) \/ \E i \in DOMAIN mgrs : RefillDeliver(s, i))

FairNoTick ==
    /\ \A c \in Callers : WF_vars(CallerStep(c)) /\ WF_vars(Receive(c))
    /\ \A i \in 1..NumCallers : WF_vars(MgrStep(i))

\* Manager and callers run; tickers may or may not fire.
NoTickFairSpec == Spec /\ FairNoTick

\* Manager, callers and tickers run.
FairSpec == Spec /\ FairNoTick /\ \A s \in 1..NumCallers : WF_vars(Tick(s))

----
\* Derived quantities used by the properties.

RECURSIVE SumGot(_)
SumGot(S) == IF S = {} THEN 0
             ELSE LET c == CHOOSE x \in S : TRUE IN got[c] + SumGot(S \ {c})

\* Number of tokens received by Limit calls.
Admitted == SumGot(Callers)

\* Calls that took the `case <-l.out` branch of the select.
TookToken == {c \in Callers : pc[c] \in {"recvLock", "recvCS"} \/ result[c] = "nil"}

\* Calls that took the `case <-ctx.Done()` branch of the select.
TookCancel == {c \in Callers : pc[c] \in {"doneLock", "doneCS"} \/ result[c] = "err"}

\* Calls that have passed the entry bookkeeping and not yet returned.
InProgress == {c \in Callers : pc[c] \notin {"idle", "done"}}

AnyCancel == \E c \in Callers : ctxDone[c]

\* The reservoir is full: every running manager holds maxTokens tokens.
LevelFull == \A i \in Running : mgrs[i].tokenCount = maxTokens

----
\* C1: the number of Limit calls that received a token is at most maxTokens
\* plus the number of successful deliveries on l.in; with no delivery at
\* most maxTokens calls are admitted.
C1_AdmissionBounded == Admitted <= maxTokens + refilled

\* A restarted manager has admitted exactly maxTokens + refills calls.
C1_Witness ==
    /\ Len(mgrs) >= 2
    /\ refilled >= 1
    /\ Admitted = maxTokens + refilled

\* C3: a call that takes the ctx.Done() branch has received no token, and
\* the number of tokenCount-- equals the number of calls that took the
\* token branch.
C3_CancelConsumesNothing ==
    /\ \A c \in TookCancel : got[c] = 0
    /\ dispensed = Cardinality(TookToken)

\* One call was cancelled while blocked and another one was admitted.
C3_Witness ==
    /\ \E c \in Callers : result[c] = "err" /\ got[c] = 0
    /\ dispensed >= 1

\* C6: 0 <= tokenCount <= maxTokens for every manager.
C6_LevelInRange ==
    \A i \in DOMAIN mgrs : mgrs[i].tokenCount >= 0 /\ mgrs[i].tokenCount <= maxTokens

\* The reservoir went empty and was refilled to full while a scheduler is
\* still ticking.
C6_Witness ==
    /\ maxTokens >= 2
    /\ refilled >= maxTokens
    /\ \E i \in Running : mgrs[i].tokenCount = maxTokens
    /\ \E s \in DOMAIN scheds : scheds[s].alive

\* C7: at most one manageTokens goroutine is running.
C7_OneManager == Cardinality(Running) <= 1

\* A second manager runs after the first one has terminated.
C7_Witness ==
    /\ Len(mgrs) >= 2
    /\ Cardinality(Running) = 1
    /\ mgrs[1].pc = "done"

\* C8: when the mutex is not held, a manager is running iff
\* numConcurrent > 0.
C8_RunningIffCounted == mutex = Free => (Running # {} <=> numConcurrent > 0)

\* The manager has terminated and left the count at 0.
C8_Witness ==
    /\ mutex = Free
    /\ Len(mgrs) >= 1
    /\ Running = {}
    /\ numConcurrent = 0

\* C10: Limit returns the context's error only if ctx is done, and nil only
\* after receiving exactly one token; it returns nothing else.
C10_TwoOutcomes ==
    \A c \in Callers :
        /\ result[c] \in {"none", "nil", "err"}
        /\ (pc[c] = "done") <=> (result[c] # "none")
        /\ result[c] = "err" => ctxDone[c]
        /\ result[c] = "nil" => got[c] = 1

\* Both outcomes have been returned.
C10_Witness ==
    \E c, d \in Callers : result[c] = "nil" /\ result[d] = "err" /\ ctxDone[d]

----
\* More calls have been issued than the reservoir holds tokens.
TooManyCalls == Cardinality({c \in Callers : pc[c] # "idle"}) > maxTokens

\* C2: when at most maxTokens calls are issued and none is cancelled, every
\* issued call eventually returns nil, whether or not any ticker fires.
C2_CapacityAdmitted ==
    \A c \in Callers :
        (pc[c] # "idle") ~> (result[c] = "nil" \/ AnyCancel \/ TooManyCalls)

\* maxTokens = 2 concurrent calls were admitted by one manager with no
\* refill and no cancellation.
C2_Witness ==
    /\ maxTokens = 2
    /\ Len(mgrs) = 1
    /\ refilled = 0
    /\ ~AnyCancel
    /\ \A c \in 1..maxTokens : result[c] = "nil"

\* The manager has terminated and left the count at 0.
TornDown == Running = {} /\ numConcurrent = 0

\* C4: once the reservoir is full and no call is in progress, the manager
\* eventually terminates and numConcurrent becomes 0, unless a new call is
\* issued.
C4_IdleTeardown ==
    (Running # {} /\ LevelFull /\ InProgress = {}) ~> (TornDown \/ InProgress # {})

\* C5: after a dispense, the level eventually returns to maxTokens unless a
\* further call is admitted.
C5_RefillToFull ==
    \A n \in 1..NumCallers :
        (dispensed = n /\ ~LevelFull) ~> (LevelFull \/ dispensed > n)

\* C9: a call blocked in its select whose ctx is done eventually returns.
C9_CancelReturns ==
    \A c \in Callers : (pc[c] = "select" /\ ctxDone[c]) ~> (pc[c] = "done")

\* A call returned the context's error while the manager, with no
\* scheduler alive, is blocked on the full-state send.
C9_Witness ==
    /\ \E c \in Callers : result[c] = "err"
    /\ \E i \in Running : mgrs[i].pc = "sendOut"
    /\ \A s \in DOMAIN scheds : ~scheds[s].alive

----
\* Calls counted in numConcurrent: past the entry bookkeeping, before the
\* exit decrement.
Counted == {c \in Callers : pc[c] \in {"select", "recvLock", "recvCS", "doneLock", "doneCS"}}

\* C11: when no call is ever cancelled, every issued call eventually
\* returns nil.
C11_AllAdmitted ==
    \A c \in Callers : (pc[c] # "idle") ~> (result[c] = "nil" \/ AnyCancel)

\* C12: when the mutex is not held, numConcurrent is one for a running
\* manager plus one for each call between its entry bookkeeping and its
\* exit decrement; it is never negative.
C12_ParticipantCount ==
    /\ numConcurrent >= 0
    /\ mutex = Free => numConcurrent = Cardinality(Running) + Cardinality(Counted)

\* One call has left on each outcome and only the manager is still counted.
C12_Witness ==
    /\ mutex = Free
    /\ numConcurrent = 1
    /\ Running # {}
    /\ \E c, d \in Callers : result[c] = "nil" /\ result[d] = "err"

\* C13: a manager terminates only at tokenCount = maxTokens, holding the
\* mutex and seeing numConcurrent = 1; a newly started manager holds
\* maxTokens tokens.
C13_TerminateOnlyFull ==
    [][ /\ \A i \in DOMAIN mgrs :
             (mgrs[i].pc # "done" /\ mgrs'[i].pc = "done") =>
                 /\ mgrs[i].tokenCount = maxTokens
                 /\ mgrs'[i].tokenCount = maxTokens
                 /\ mutex = MgrId(i)
                 /\ numConcurrent = 1
        /\ Len(mgrs') > Len(mgrs) =>
             /\ Running = {}
             /\ mgrs'[Len(mgrs')].tokenCount = maxTokens ]_vars

\* A manager terminated after dispensing and a new one has just started.
C13_Witness ==
    /\ Len(mgrs) >= 2
    /\ mgrs[1].pc = "done"
    /\ dispensed >= 1
    /\ mgrs[Len(mgrs)].pc = "loop"
    /\ mgrs[Len(mgrs)].tokenCount = maxTokens

\* C14: whenever the manager is blocked on the full-state send, a call is
\* blocked in its select to receive, and numConcurrent is not 1.
C14_FullSendHasReceiver ==
    \A i \in Running :
        mgrs[i].pc = "sendOut" =>
            /\ \E c \in Callers : pc[c] = "select"
            /\ ~(mutex = Free /\ numConcurrent = 1)

\* C15: no call is blocked in its select while no manager is running.
C15_NoLostStart ==
    \A c \in Callers : pc[c] = "select" => Running # {}

\* A call waits on a manager that was started after an earlier manager
\* terminated.
C15_Witness ==
    /\ \E c \in Callers : pc[c] = "select"
    /\ Cardinality(Running) = 1
    /\ \E i \in DOMAIN mgrs : mgrs[i].pc = "done"

----
RECURSIVE SumDelivered(_)
SumDelivered(S) == IF S = {} THEN 0
                   ELSE LET x == CHOOSE y \in S : TRUE
                        IN scheds[x].delivered + SumDelivered(S \ {x})

\* refillTokens goroutines that have not returned.
Alive == {s \in DOMAIN scheds : scheds[s].alive}

\* manageTokens goroutines between the send of line 72 and line 74.
Spawning == {i \in DOMAIN mgrs : mgrs[i].pc = "spawn"}

\* C16 as stated: a refillTokens goroutine completes at most one delivery
\* on l.in over its lifetime.
C16_AtMostOneDelivery == \A s \in DOMAIN scheds : scheds[s].delivered <= 1

\* C16 amended: a refillTokens goroutine may complete several deliveries;
\* the deliveries of all of them are the tokenCount++ of the managers and
\* never outnumber the tokens dispensed.
C16_DeliveriesBounded ==
    /\ \A s \in DOMAIN scheds : scheds[s].delivered <= dispensed
    /\ SumDelivered(DOMAIN scheds) = refilled
    /\ refilled <= dispensed

\* One scheduler has delivered twice and is still ticking.
C16_Witness == \E s \in Alive : scheds[s].delivered >= 2

\* C17: a refillTokens goroutine returns only on a tick that finds no
\* receiver on l.in; a delivery leaves it alive; once it has returned it
\* never delivers again.
C17_StopsOnlyOnFailure ==
    [][ \A s \in DOMAIN scheds :
          /\ (scheds[s].alive /\ ~scheds'[s].alive) =>
                 /\ ReceivingIn = {}
                 /\ scheds'[s].delivered = scheds[s].delivered
          /\ scheds'[s].delivered # scheds[s].delivered =>
                 /\ ReceivingIn # {}
                 /\ scheds[s].alive /\ scheds'[s].alive
                 /\ scheds'[s].delivered = scheds[s].delivered + 1
          /\ ~scheds[s].alive => scheds'[s] = scheds[s] ]_vars

\* A scheduler has delivered and then stopped on a failed attempt.
C17_Witness == \E s \in DOMAIN scheds : ~scheds[s].alive /\ scheds[s].delivered >= 1

\* C18: the schedulers started, plus the one a manager is about to start at
\* line 74, are as many as the dispenses made at tokenCount = maxTokens;
\* dispenses in the partial state and refills start none.
C18_SpawnPerFullDispense ==
    Len(scheds) + Cardinality(Spawning) = fullDispensed

\* A full-state dispense, a partial-state dispense and a refill have
\* happened, and one scheduler was started.
C18_Witness ==
    /\ fullDispensed = 1
    /\ dispensed = 2
    /\ refilled >= 1
    /\ Len(scheds) = 1

\* C19: a running manager below maxTokens that is past its spawn step has
\* a live scheduler, and a scheduler stops only while the reservoir is
\* full.
C19_NoUnderReplenishment ==
    /\ [](\A i \in Running :
             (mgrs[i].tokenCount < maxTokens /\ mgrs[i].pc # "spawn") => Alive # {})
    /\ [][(\E s \in Alive : s \notin Alive') => LevelFull]_vars

\* C20: at most maxTokens refillTokens goroutines are alive.
C20_SchedulersBounded == Cardinality(Alive) <= maxTokens

====
